---- MODULE Spec2Model ----
(***************************************************************************)
(* The CallInterface component of src/components/call-interface.tsx as a   *)
(* state machine: the React state of the component, the two react-hook-    *)
(* form forms, the gateway calls in flight (the suspended halves of        *)
(* handleAhmedSubmit / handleSaraSubmit), the browser's speech-synthesis   *)
(* engine and the SpeechRecognition objects the component creates.         *)
(*                                                                         *)
(* One action is one event-loop task: a handler together with the renders  *)
(* and effects it triggers (React runs the effects whose dependencies      *)
(* changed before the next task).                                          *)
(***************************************************************************)
EXTENDS Naturals, Integers, Sequences, FiniteSets, TLC

VARIABLES
    selectedTeacher,            \* useState<Teacher>            (line 46)
    callState,                  \* useState<CallState>          (line 47)
    explanation,                \* useState<string | null>      (line 48)
    isMuted,                    \* useState(false)              (line 49)
    isListening,                \* useState(false)              (line 52)
    listeningLanguage,          \* useState<SpeechLanguage|null>(line 53)
    speechRecognitionSupported, \* useState(true)               (line 54)
    speechRecognitionRef,       \* speechRecognitionRef.current is not null
    conversationHistory,        \* useState<ConversationEntry[]>(line 56)
    ahmedForm,                  \* values of ahmedForm          (line 59)
    saraForm,                   \* values of saraForm           (line 64)
    errors,                     \* formState.errors of the rendered form
    isSubmitting,               \* formState.isSubmitting, per form
    pendingCalls,               \* gateway calls awaiting their response
    synthAvailable,             \* window.speechSynthesis is defined
    synthSpeaking,              \* window.speechSynthesis.speaking
    voicesLoaded,               \* synth.getVoices().length > 0
    onvoiceschanged,            \* synth.onvoiceschanged = loadVoices was set
    recognitionState,           \* engine state of speechRecognitionRef.current
    staleEnds,                  \* aborted former recognition objects whose
                                \* end event has not been delivered yet
    utteranceErrorPending,      \* a cancelled utterance still owes its error event
    voices,                     \* what synth.getVoices() returns once loaded
    chosenVoice,                \* utterance.voice of the last utterance built
    playback,                   \* synth.speak calls for the explanation of the
                                \* last turn: none, once, again
    recognitionLanguage,        \* the lang the engine read when it accepted
                                \* start(); null when it holds no session
    toast                       \* the notification the last task raised (useToast)

vars == << selectedTeacher, callState, explanation, isMuted, isListening,
           listeningLanguage, speechRecognitionSupported, speechRecognitionRef,
           conversationHistory,
           ahmedForm, saraForm, errors, isSubmitting, pendingCalls,
           synthAvailable, synthSpeaking, voicesLoaded, onvoiceschanged,
           recognitionState, staleEnds, utteranceErrorPending,
           recognitionLanguage, voices, chosenVoice, playback, toast >>

coreVars == << selectedTeacher, callState, explanation, conversationHistory >>

(***************************************************************************)
(* Types and program constants                                             *)
(***************************************************************************)
Teacher == {"Ahmed", "Sara"}
CallState == {"idle", "calling", "active", "error"}
SpeechLanguage == {"en-US", "ar-SA"}
Null == "null"

MAX_HISTORY_PAIRS == 10

\* z.string().min(3) / z.string().min(2) of ahmedSchema and saraSchema
MinConceptLength == 3
MinProficiencyLength == 2

(***************************************************************************)
(* Bounds of the exploration                                               *)
(***************************************************************************)
\* Spec (a host with speech): the pairs the history holds when the user stops
\* asking
MaxFollowUps == 2
\* SpecCore (a host without speech): the same bound, and the gateway calls
\* that may be awaiting a response at the same time
MaxInFlightCore == 2
MaxFollowUpsCore == 2
\* aborted recognition objects that may still owe their end event
MaxStale == 1
\* SpecVoices: the voices synth.getVoices() may return
MaxVoices == 3

\* what the user types (or dictates) into the concept field
Concepts == {"ab", "abc"}
\* what the user types into Sara's proficiency field
Proficiencies == {"a", "ab"}
\* what a gateway call may return
Explanations == {"e1", "e2"}
\* the environment of a specification: how far the user goes and what the
\* gateway answers
Env(followUps, inFlight, answers) ==
    [maxFollowUps |-> followUps, maxInFlight |-> inFlight, explanations |-> answers]

Max(a, b) == IF a >= b THEN a ELSE b
Min(a, b) == IF a <= b THEN a ELSE b


(***************************************************************************)
(* Pure helpers                                                            *)
(***************************************************************************)
\* Array.prototype.slice(start) of a JavaScript array, start possibly negative
JsSlice(s, start) ==
    LET len == Len(s)
        k == IF start < 0 THEN Max(len + start, 0) ELSE Min(start, len)
    IN  SubSeq(s, k + 1, len)

RemoveAt(s, i) == SubSeq(s, 1, i - 1) \o SubSeq(s, i + 1, Len(s))

ConversationEntry(speaker, message) == [speaker |-> speaker, message |-> message]

\* faulty variant of AppendTurn: slice(0, MAX_HISTORY_PAIRS * 2), which drops the newest
AppendTurnKeepsOldest(prev, teacher, concept, expl) ==
    SubSeq(prev \o << ConversationEntry("User", concept),
                      ConversationEntry(teacher, expl) >>,
           1, Min(Len(prev) + 2, MAX_HISTORY_PAIRS * 2))

\* prev => [...prev, userEntry, aiEntry].slice(-(MAX_HISTORY_PAIRS * 2))
AppendTurn(prev, teacher, concept, expl) ==
    JsSlice(prev \o << ConversationEntry("User", concept),
                       ConversationEntry(teacher, expl) >>,
            0 - (MAX_HISTORY_PAIRS * 2))

\* faulty variant of AhmedErrors: the minimum length off by one
AhmedErrorsLenient(data) ==
    IF Len(data.englishGrammarConcept) >= MinConceptLength - 1
    THEN {} ELSE {"englishGrammarConcept"}

\* the fields zodResolver(ahmedSchema) / zodResolver(saraSchema) reject
AhmedErrors(data) ==
    IF Len(data.englishGrammarConcept) >= MinConceptLength
    THEN {} ELSE {"englishGrammarConcept"}

SaraErrors(data) ==
    (IF Len(data.englishGrammarConcept) >= MinConceptLength
     THEN {} ELSE {"englishGrammarConcept"})
    \cup
    (IF Len(data.userLanguageProficiency) >= MinProficiencyLength
     THEN {} ELSE {"userLanguageProficiency"})

AhmedDefaults == [englishGrammarConcept |-> ""]
SaraDefaults == [englishGrammarConcept |-> "", userLanguageProficiency |-> ""]

\* ConversationEntrySchema of each flow: speaker is z.enum(['User', <persona>])
InputSchemaAccepts(teacher, input) ==
    \A i \in 1..Len(input.conversationHistory) :
        input.conversationHistory[i].speaker \in {"User", teacher}

(***************************************************************************)
(* What the rendered page offers (the JSX of lines 383-476)                *)
(***************************************************************************)
\* <Button type="submit" disabled={isSubmitting || isListening}> is rendered
\* for callState idle | error
SubmitButtonEnabled ==
    /\ callState \in {"idle", "error"}
    /\ ~isSubmitting[selectedTeacher]
    /\ ~isListening

\* In callState active the form holds no submit button (the end-call button
\* is type="button"), and Sara's form holds exactly one text <Input>: Enter
\* in that field submits the form (HTML implicit submission).  Ahmed's form
\* holds only the <Textarea>, which never submits implicitly.
ImplicitSubmission ==
    /\ selectedTeacher = "Sara"
    /\ callState = "active"
    /\ ~isSubmitting["Sara"]

SubmitOffered == SubmitButtonEnabled \/ ImplicitSubmission

\* faulty variant of EndCallOffered: the button also rendered for callState error
EndCallOfferedInError == callState \in {"active", "error"}

\* the "end call" button is rendered in the last branch only
EndCallOffered == callState = "active"

\* <Textarea disabled={callState === "calling" || isSubmitting || isListening}>
TextareaEnabled ==
    /\ callState # "calling"
    /\ ~isSubmitting[selectedTeacher]
    /\ ~isListening

\* <Input disabled={callState === "calling" || isSubmitting}>
ProficiencyInputEnabled ==
    /\ callState # "calling"
    /\ ~isSubmitting[selectedTeacher]

\* EN / AR buttons
ListenButtonEnabled(language) ==
    /\ speechRecognitionSupported
    /\ callState # "calling"
    /\ ~isSubmitting[selectedTeacher]
    /\ ~(isListening /\ listeningLanguage # language)

(***************************************************************************)
(* The text-to-speech effect (lines 90-151)                                *)
(***************************************************************************)
\* the negation of the guard of line 96
(***************************************************************************)
(* Voice selection (loadVoices, lines 107-125).  Names and language tags   *)
(* are sequences of characters; the letters of the two Arabic words of the *)
(* patterns are written by their names.                                    *)
(***************************************************************************)
ToLower(ch) ==
    CASE ch = "M" -> "m"
      [] ch = "F" -> "f"
      [] ch = "L" -> "l"
      [] ch = "A" -> "a"
      [] ch = "E" -> "e"
      [] OTHER -> ch

LowerCase(str) == [i \in 1..Len(str) |-> ToLower(str[i])]

\* String.prototype.startsWith
StartsWith(str, prefix) ==
    Len(str) >= Len(prefix) /\ SubSeq(str, 1, Len(prefix)) = prefix

\* str has part as a substring
Contains(str, part) ==
    \E i \in 0..(Len(str) - Len(part)) : SubSeq(str, i + 1, i + Len(part)) = part

Rajul == << "ra", "jim", "lam" >>
Imraa == << "alif", "mim", "ra", "alif-hamza", "ta-marbuta" >>

\* /male|rajul/i.test(name) and /female|imraa/i.test(name)
AhmedVoicePattern(name) ==
    Contains(LowerCase(name), << "m", "a", "l", "e" >>) \/ Contains(LowerCase(name), Rajul)

SaraVoicePattern(name) ==
    \/ Contains(LowerCase(name), << "f", "e", "m", "a", "l", "e" >>)
    \/ Contains(LowerCase(name), Imraa)

PersonaPattern(teacher, name) ==
    IF teacher = "Ahmed" THEN AhmedVoicePattern(name) ELSE SaraVoicePattern(name)

\* voice.lang.startsWith('ar-')
IsArabicVoice(voice) == StartsWith(voice.lang, << "a", "r", "-" >>)

\* utterance.voice left unset
NoVoice == [name |-> << >>, lang |-> << >>]

\* faulty variant of FindIndex: the last element that satisfies the pattern
FindLastIndex(teacher, list) ==
    LET hits == {i \in 1..Len(list) : PersonaPattern(teacher, list[i].name)}
    IN  IF hits = {} THEN 0 ELSE CHOOSE i \in hits : \A j \in hits : j <= i

\* the index Array.prototype.find stops at, 0 when it returns undefined
FindIndex(teacher, list) ==
    LET hits == {i \in 1..Len(list) : PersonaPattern(teacher, list[i].name)}
    IN  IF hits = {} THEN 0 ELSE CHOOSE i \in hits : \A j \in hits : i <= j

\* the voice loadVoices gives the utterance
ChooseVoice(teacher, allVoices) ==
    LET arabicVoices == SelectSeq(allVoices, IsArabicVoice)
        found == FindIndex(teacher, arabicVoices)
    IN  IF Len(arabicVoices) > 0
        THEN IF found # 0 THEN arabicVoices[found] ELSE arabicVoices[1]
        ELSE NoVoice

\* the voices of the model's hosts
MaleVoice    == [name |-> << "M", "a", "l", "e" >>,           lang |-> << "a", "r", "-", "S", "A" >>]
FemaleVoice  == [name |-> << "F", "e", "m", "a", "l", "e" >>, lang |-> << "a", "r", "-", "E", "G" >>]
LailaVoice   == [name |-> << "L", "a", "i", "l", "a" >>,      lang |-> << "a", "r", "-", "S", "A" >>]
RajulVoice   == [name |-> Rajul,                              lang |-> << "a", "r", "-", "S", "A" >>]
EnglishVoice == [name |-> << "M", "a", "l", "e" >>,           lang |-> << "e", "n", "-", "U", "S" >>]

VoiceUniverse == {MaleVoice, FemaleVoice, LailaVoice, RajulVoice, EnglishVoice}

\* the host of Spec and SpecNoRecognition has no Arabic voice
HostVoices == << EnglishVoice >>

\* the lists getVoices() can return: up to MaxVoices distinct voices
VoiceLists ==
    UNION {{list \in [1..n -> VoiceUniverse] :
               \A i, j \in 1..n : i # j => list[i] # list[j]} : n \in 1..MaxVoices}

ShouldSpeak(cs, ex, mu, li) ==
    cs = "active" /\ ex # Null /\ ex # "" /\ ~mu /\ ~li

\* how often synth.speak was called for the explanation of the last turn
Played(before) == IF before = "none" THEN "once" ELSE "again"

\* The state of the synthesis engine after a task that left the effect's
\* dependencies at (t, cs, ex, mu, li); cancelled tells whether the handler
\* itself called synth.cancel(), turn whether the task was a successful turn.  When a dependency changed, React runs the
\* previous cleanup (cancel) and the effect again.
TextToSpeechEffect(t, cs, ex, mu, li, cancelled, turn) ==
    LET changed == << t, cs, ex, mu, li >> #
                   << selectedTeacher, callState, explanation, isMuted, isListening >>
    IN  /\ playback' =
              LET before == IF turn \/ ex = Null THEN "none" ELSE playback
              IN  IF synthAvailable /\ changed /\ ShouldSpeak(cs, ex, mu, li) /\ voicesLoaded
                  THEN Played(before)
                  ELSE before
        \* synth.cancel() on a speaking utterance makes it fire its error event
        /\ utteranceErrorPending' =
              (utteranceErrorPending \/ (synthSpeaking /\ (cancelled \/ changed)))
        /\ IF ~synthAvailable
           THEN UNCHANGED << synthSpeaking, onvoiceschanged, chosenVoice >>
           ELSE IF ~changed
           THEN /\ synthSpeaking' = (synthSpeaking /\ ~cancelled)
                /\ UNCHANGED << onvoiceschanged, chosenVoice >>
           ELSE IF ~ShouldSpeak(cs, ex, mu, li)
           THEN /\ synthSpeaking' = FALSE
                /\ UNCHANGED << onvoiceschanged, chosenVoice >>
           ELSE IF voicesLoaded
           THEN /\ synthSpeaking' = TRUE          \* loadVoices(): synth.speak
                /\ chosenVoice' = ChooseVoice(t, voices)
                /\ UNCHANGED onvoiceschanged
           ELSE /\ synthSpeaking' = FALSE
                /\ onvoiceschanged' = TRUE        \* synth.onvoiceschanged = loadVoices
                /\ UNCHANGED chosenVoice

\* the titles of the notifications the component raises through toast()
ToastTitles == {"explanation-received", "connection-error", "voice-input-error",
                "feature-unsupported", "speech-error"}

\* speechRecognitionRef.current.abort()
Abort(state) == IF state = "idle" THEN "idle" ELSE "ending"

\* The calls in flight after the session that made them was reset.  The
\* component keeps no trace of this (the awaiting handlers are not told);
\* the mark only lets the properties tell a late response from a current one.
Abandon(calls) == [i \in 1..Len(calls) |-> [calls[i] EXCEPT !.abandoned = TRUE]]

\* faulty variant of ResetSession: the history is not cleared
ResetSessionKeepsHistory ==
    /\ callState' = "idle"
    /\ explanation' = Null
    /\ UNCHANGED conversationHistory

\* setCallState("idle"); setExplanation(null); setConversationHistory([])
\* of the reset effect (lines 79-81) and of endCall (lines 316-318)
ResetSession ==
    /\ callState' = "idle"
    /\ explanation' = Null
    /\ conversationHistory' = << >>

(***************************************************************************)
(* Initial state: the component after its first render and effects         *)
(***************************************************************************)
InitCommon ==
    /\ selectedTeacher = "Ahmed"
    /\ callState = "idle"
    /\ explanation = Null
    /\ isMuted = FALSE
    /\ isListening = FALSE
    /\ listeningLanguage = Null
    /\ conversationHistory = << >>
    /\ ahmedForm = AhmedDefaults
    /\ saraForm = SaraDefaults
    /\ errors = {}
    /\ isSubmitting = [t \in Teacher |-> FALSE]
    /\ pendingCalls = << >>
    /\ synthSpeaking = FALSE
    /\ onvoiceschanged = FALSE
    /\ recognitionState = "idle"
    /\ staleEnds = 0
    /\ utteranceErrorPending = FALSE
    /\ recognitionLanguage = Null
    /\ toast = Null
    /\ chosenVoice = NoVoice
    /\ playback = "none"

\* a host with both speech capabilities; the voice list may load later
Init ==
    /\ InitCommon
    /\ speechRecognitionSupported = TRUE
    /\ speechRecognitionRef = TRUE
    /\ synthAvailable = TRUE
    /\ voicesLoaded \in BOOLEAN
    /\ voices = IF voicesLoaded THEN HostVoices ELSE << >>

\* a host with neither window.speechSynthesis nor a SpeechRecognition API
InitNoSpeech ==
    /\ InitCommon
    /\ speechRecognitionSupported = FALSE
    /\ speechRecognitionRef = FALSE
    /\ synthAvailable = FALSE
    /\ voicesLoaded = FALSE
    /\ voices = << >>

\* a host with both speech capabilities whose voice list is loaded when the
\* component mounts, one state for every list
InitVoices ==
    /\ InitCommon
    /\ speechRecognitionSupported = TRUE
    /\ speechRecognitionRef = TRUE
    /\ synthAvailable = TRUE
    /\ voices \in VoiceLists
    /\ voicesLoaded = TRUE

\* a host with speech synthesis and without a SpeechRecognition API, right
\* after the first render: the setup effect (lines 155-161) has yet to run
InitNoRecognition ==
    /\ InitCommon
    /\ speechRecognitionSupported = TRUE
    /\ speechRecognitionRef = FALSE
    /\ synthAvailable = TRUE
    /\ voicesLoaded \in BOOLEAN
    /\ voices = IF voicesLoaded THEN HostVoices ELSE << >>


(***************************************************************************)
(* Session coordinator: submission, gateway responses, reset               *)
(***************************************************************************)
\* commonSubmitLogic, followed by the effect run its state changes trigger
commonSubmitLogic ==
    /\ IF speechRecognitionRef /\ isListening
       THEN /\ recognitionState' = Abort(recognitionState)
            /\ isListening' = FALSE
            /\ listeningLanguage' = Null
       ELSE UNCHANGED << recognitionState, isListening, listeningLanguage >>
    /\ callState' = "calling"
    /\ explanation' = Null
    /\ TextToSpeechEffect(selectedTeacher, "calling", Null, isMuted, FALSE, TRUE, FALSE)

\* handleAhmedSubmit up to the await of ahmedVoiceCall(input)
handleAhmedSubmit(data) ==
    /\ commonSubmitLogic
    /\ pendingCalls' = Append(pendingCalls,
          [teacher |-> "Ahmed", abandoned |-> FALSE,
           input |-> [englishGrammarConcept |-> data.englishGrammarConcept,
                      conversationHistory |-> conversationHistory]])

\* handleSaraSubmit up to the await of saraVoiceCall(input)
handleSaraSubmit(data) ==
    /\ commonSubmitLogic
    /\ pendingCalls' = Append(pendingCalls,
          [teacher |-> "Sara", abandoned |-> FALSE,
           input |-> [englishGrammarConcept |-> data.englishGrammarConcept,
                      userLanguageProficiency |-> data.userLanguageProficiency,
                      conversationHistory |-> conversationHistory]])

\* handleSubmit found the data invalid: only the form errors are shown
ValidationFails(errs) ==
    /\ errors' = errs
    /\ UNCHANGED << callState, explanation, isListening, listeningLanguage,
                    pendingCalls, isSubmitting, synthSpeaking, onvoiceschanged,
                    chosenVoice, playback, recognitionState, utteranceErrorPending >>

\* the values the user can have put into the concept field before submitting
ConceptChoices(current) ==
    IF TextareaEnabled THEN Concepts \cup {current} ELSE {current}

ProficiencyChoices(current) ==
    IF ProficiencyInputEnabled THEN Proficiencies \cup {current} ELSE {current}

\* <form onSubmit={handleSubmit(onSubmit)}> with Ahmed's form rendered;
\* env bounds the questions the user asks
SubmitAhmed(env) ==
    /\ selectedTeacher = "Ahmed"
    /\ SubmitOffered
    /\ Len(pendingCalls) < env.maxInFlight
    /\ Len(conversationHistory) < 2 * env.maxFollowUps
    /\ \E c \in ConceptChoices(ahmedForm.englishGrammarConcept) :
          LET data == [englishGrammarConcept |-> c]
          IN  /\ ahmedForm' = data
              /\ IF AhmedErrors(data) = {}
                 THEN /\ handleAhmedSubmit(data)
                      /\ errors' = {}
                      /\ isSubmitting' = [isSubmitting EXCEPT !["Ahmed"] = TRUE]
                 ELSE ValidationFails(AhmedErrors(data))
    /\ UNCHANGED << selectedTeacher, isMuted, speechRecognitionSupported, speechRecognitionRef,
                    conversationHistory, saraForm, synthAvailable, voices, voicesLoaded,
                    staleEnds, recognitionLanguage >>
    /\ toast' = Null

SubmitSara(env) ==
    /\ selectedTeacher = "Sara"
    /\ SubmitOffered
    /\ Len(pendingCalls) < env.maxInFlight
    /\ Len(conversationHistory) < 2 * env.maxFollowUps
    /\ \E c \in ConceptChoices(saraForm.englishGrammarConcept),
          p \in ProficiencyChoices(saraForm.userLanguageProficiency) :
          LET data == [englishGrammarConcept |-> c, userLanguageProficiency |-> p]
          IN  /\ saraForm' = data
              /\ IF SaraErrors(data) = {}
                 THEN /\ handleSaraSubmit(data)
                      /\ errors' = {}
                      /\ isSubmitting' = [isSubmitting EXCEPT !["Sara"] = TRUE]
                 ELSE ValidationFails(SaraErrors(data))
    /\ UNCHANGED << selectedTeacher, isMuted, speechRecognitionSupported, speechRecognitionRef,
                    conversationHistory, ahmedForm, synthAvailable, voices, voicesLoaded,
                    staleEnds, recognitionLanguage >>
    /\ toast' = Null

\* the continuation of handle<Teacher>Submit after the await returned result
ResolveCall(i, e) ==
       LET call == pendingCalls[i]
       IN  /\ InputSchemaAccepts(call.teacher, call.input)
           /\ explanation' = e
           /\ callState' = "active"
           /\ conversationHistory' =
                 AppendTurn(conversationHistory, call.teacher,
                            call.input.englishGrammarConcept, e)
           /\ pendingCalls' = RemoveAt(pendingCalls, i)
           /\ isSubmitting' = [isSubmitting EXCEPT ![call.teacher] = FALSE]
           /\ toast' = "explanation-received"
           /\ TextToSpeechEffect(selectedTeacher, "active", e, isMuted,
                                 isListening, FALSE, TRUE)
           /\ UNCHANGED << selectedTeacher, isMuted, isListening,
                           listeningLanguage, speechRecognitionSupported, speechRecognitionRef,
                           ahmedForm, saraForm, errors, synthAvailable, voices,
                           voicesLoaded, recognitionState, staleEnds, recognitionLanguage >>

VoiceCallResolves(env) ==
    \E i \in 1..Len(pendingCalls), e \in env.explanations : ResolveCall(i, e)

\* faulty variant of RejectCall: the catch block calls the gateway again
RejectCallRetries(i) ==
       LET call == pendingCalls[i]
       IN  /\ toast' = "connection-error"
           /\ pendingCalls' = Append(RemoveAt(pendingCalls, i), call)
           /\ UNCHANGED << selectedTeacher, callState, explanation, isMuted,
                           isListening, listeningLanguage,
                           speechRecognitionSupported, speechRecognitionRef, conversationHistory,
                           ahmedForm, saraForm, errors, isSubmitting,
                           synthAvailable, playback, voices, chosenVoice, synthSpeaking, voicesLoaded,
                           onvoiceschanged, recognitionState, staleEnds,
                           utteranceErrorPending, recognitionLanguage >>

\* faulty variant of RejectCall: the catch block raises the notification and
\* does not set callState
RejectCallKeepsCallState(i) ==
       LET call == pendingCalls[i]
       IN  /\ toast' = "connection-error"
           /\ pendingCalls' = RemoveAt(pendingCalls, i)
           /\ isSubmitting' = [isSubmitting EXCEPT ![call.teacher] = FALSE]
           /\ UNCHANGED << selectedTeacher, callState, explanation, isMuted,
                           isListening, listeningLanguage,
                           speechRecognitionSupported, speechRecognitionRef, conversationHistory,
                           ahmedForm, saraForm, errors, synthAvailable, playback, voices, chosenVoice,
                           synthSpeaking, voicesLoaded, onvoiceschanged,
                           recognitionState, staleEnds, utteranceErrorPending,
                    recognitionLanguage >>

\* the catch block of handle<Teacher>Submit
RejectCall(i) ==
       LET call == pendingCalls[i]
       IN  /\ toast' = "connection-error"
           /\ callState' = "error"
           /\ pendingCalls' = RemoveAt(pendingCalls, i)
           /\ isSubmitting' = [isSubmitting EXCEPT ![call.teacher] = FALSE]
           /\ TextToSpeechEffect(selectedTeacher, "error", explanation, isMuted,
                                 isListening, FALSE, FALSE)
           /\ UNCHANGED << selectedTeacher, explanation, isMuted, isListening,
                           listeningLanguage, speechRecognitionSupported, speechRecognitionRef,
                           conversationHistory, ahmedForm, saraForm, errors,
                           synthAvailable, voices, voicesLoaded, recognitionState,
                           staleEnds, recognitionLanguage >>

VoiceCallRejects == \E i \in 1..Len(pendingCalls) : RejectCall(i)

\* Tabs onValueChange -> setSelectedTeacher, then the effects that depend on
\* selectedTeacher: the cleanups of the previous render (synth.cancel(), abort
\* of the previous recognition object), the reset effect (lines 70-87), the
\* text-to-speech effect, and the recognition setup for the new render.
SelectTeacher(t) ==
    /\ t # selectedTeacher
    /\ recognitionState = "idle" \/ staleEnds < MaxStale
    /\ selectedTeacher' = t
    /\ staleEnds' = IF recognitionState = "idle" THEN staleEnds ELSE staleEnds + 1
    /\ recognitionState' = "idle"
    /\ recognitionLanguage' = Null
    /\ IF speechRecognitionRef /\ isListening
       THEN isListening' = FALSE /\ listeningLanguage' = Null
       ELSE UNCHANGED << isListening, listeningLanguage >>
    /\ ResetSession
    /\ ahmedForm' = AhmedDefaults
    /\ saraForm' = SaraDefaults
    /\ errors' = {}
    /\ isSubmitting' = [x \in Teacher |-> FALSE]
    /\ synthSpeaking' = FALSE
    /\ utteranceErrorPending' = (utteranceErrorPending \/ synthSpeaking)
    /\ toast' = Null
       \* the effect first runs with the state of the render that switched
    /\ onvoiceschanged' =
          (onvoiceschanged \/
           (synthAvailable /\ ~voicesLoaded /\
            ShouldSpeak(callState, explanation, isMuted, isListening)))
    /\ pendingCalls' = Abandon(pendingCalls)
       \* the setup effect: setSpeechRecognitionSupported(false) without the
       \* API, setSpeechRecognitionSupported(true) and a new object with it
    /\ speechRecognitionSupported' = speechRecognitionRef
    /\ playback' = "none"
       \* the utterance that first run builds, and the reset cancels
    /\ chosenVoice' =
          IF synthAvailable /\ voicesLoaded /\
             ShouldSpeak(callState, explanation, isMuted, isListening)
          THEN ChooseVoice(t, voices)
          ELSE chosenVoice
    /\ UNCHANGED << isMuted, speechRecognitionRef, synthAvailable, voices, voicesLoaded >>

endCall ==
    /\ EndCallOffered
    /\ IF speechRecognitionRef /\ isListening
       THEN /\ recognitionState' = Abort(recognitionState)
            /\ isListening' = FALSE
            /\ listeningLanguage' = Null
       ELSE UNCHANGED << recognitionState, isListening, listeningLanguage >>
    /\ ResetSession
    /\ IF selectedTeacher = "Ahmed"
       THEN ahmedForm' = AhmedDefaults /\ UNCHANGED saraForm
       ELSE saraForm' = SaraDefaults /\ UNCHANGED ahmedForm
    /\ errors' = {}
    /\ isSubmitting' = [isSubmitting EXCEPT ![selectedTeacher] = FALSE]
    /\ TextToSpeechEffect(selectedTeacher, "idle", Null, isMuted, FALSE, TRUE, FALSE)
    /\ toast' = Null
    /\ pendingCalls' = Abandon(pendingCalls)
    /\ UNCHANGED << selectedTeacher, isMuted, speechRecognitionSupported, speechRecognitionRef,
                    synthAvailable, voices, voicesLoaded, staleEnds, recognitionLanguage >>

\* faulty variant of toggleMute: muting also discards the explanation
toggleMuteDiscardsExplanation ==
    /\ isMuted' = ~isMuted
    /\ explanation' = IF isMuted THEN explanation ELSE Null
    /\ toast' = Null
    /\ TextToSpeechEffect(selectedTeacher, callState, explanation', ~isMuted,
                          isListening, ~isMuted, FALSE)
    /\ UNCHANGED << selectedTeacher, callState, isListening,
                    listeningLanguage, speechRecognitionSupported, speechRecognitionRef,
                    conversationHistory, ahmedForm, saraForm, errors,
                    isSubmitting, pendingCalls, synthAvailable, voices, voicesLoaded,
                    recognitionState, staleEnds, recognitionLanguage >>

toggleMute ==
    /\ isMuted' = ~isMuted
    /\ toast' = Null
    /\ TextToSpeechEffect(selectedTeacher, callState, explanation, ~isMuted,
                          isListening, ~isMuted, FALSE)
    /\ UNCHANGED << selectedTeacher, callState, explanation, isListening,
                    listeningLanguage, speechRecognitionSupported, speechRecognitionRef,
                    conversationHistory, ahmedForm, saraForm, errors,
                    isSubmitting, pendingCalls, synthAvailable, voices, voicesLoaded,
                    recognitionState, staleEnds, recognitionLanguage >>


(***************************************************************************)
(* Speech capture (lines 155-232)                                          *)
(***************************************************************************)
\* what recognition.onresult may deliver
Transcripts == {"ab", "abc"}

\* the error kinds recognition.onerror distinguishes, and one other
RecognitionErrors == {"no-speech", "audio-capture", "not-allowed",
                      "language-not-supported", "network"}

\* faulty variant of StartRejected: only the state is looked at
StartRejectedByStateOnly == ~speechRecognitionSupported

\* !speechRecognitionRef.current || !speechRecognitionSupported (line 214)
StartRejected == ~speechRecognitionRef \/ ~speechRecognitionSupported

toggleListening(language) ==
    /\ ListenButtonEnabled(language)
    /\ IF StartRejected
       THEN /\ toast' = "feature-unsupported"
            /\ UNCHANGED << isListening, listeningLanguage, recognitionState,
                            recognitionLanguage >>
       ELSE IF isListening
       THEN \* speechRecognitionRef.current.stop()
            /\ recognitionState' =
                  IF recognitionState = "running" THEN "stopping"
                  ELSE recognitionState
            /\ toast' = Null
            /\ UNCHANGED << isListening, listeningLanguage, recognitionLanguage >>
       ELSE IF recognitionState = "idle"
       THEN \* start() accepted: onstart follows
            /\ recognitionState' = "starting"
            /\ recognitionLanguage' = language
            /\ listeningLanguage' = language
            /\ toast' = Null
            /\ UNCHANGED isListening
       ELSE \* start() throws InvalidStateError: the catch block
            /\ toast' = "voice-input-error"
            /\ isListening' = FALSE
            /\ listeningLanguage' = Null
            /\ UNCHANGED << recognitionState, recognitionLanguage >>
    /\ TextToSpeechEffect(selectedTeacher, callState, explanation, isMuted,
                          isListening', FALSE, FALSE)
    /\ UNCHANGED << selectedTeacher, callState, explanation, isMuted,
                    speechRecognitionSupported, speechRecognitionRef, conversationHistory, ahmedForm,
                    saraForm, errors, isSubmitting, pendingCalls,
                    synthAvailable, voices, voicesLoaded, staleEnds >>

\* the setup effect on a host without the API: console.warn and
\* setSpeechRecognitionSupported(false)
RecognitionSetup ==
    /\ ~speechRecognitionRef
    /\ speechRecognitionSupported
    /\ speechRecognitionSupported' = FALSE
    /\ toast' = Null
    /\ UNCHANGED << selectedTeacher, callState, explanation, isMuted,
                    isListening, listeningLanguage, speechRecognitionRef,
                    conversationHistory, ahmedForm, saraForm, errors,
                    isSubmitting, pendingCalls, synthAvailable, playback, voices, chosenVoice, synthSpeaking,
                    voicesLoaded, onvoiceschanged, recognitionState, staleEnds,
                    utteranceErrorPending, recognitionLanguage >>

\* recognition.onstart
RecognitionStart ==
    /\ recognitionState = "starting"
    /\ recognitionState' = "running"
    /\ isListening' = TRUE
    /\ toast' = Null
    /\ TextToSpeechEffect(selectedTeacher, callState, explanation, isMuted,
                          TRUE, synthSpeaking, FALSE)
    /\ UNCHANGED << selectedTeacher, callState, explanation, isMuted,
                    listeningLanguage, speechRecognitionSupported, speechRecognitionRef,
                    conversationHistory, ahmedForm, saraForm, errors,
                    isSubmitting, pendingCalls, synthAvailable, voices, voicesLoaded,
                    staleEnds, recognitionLanguage >>

\* faulty variant of SetValue: the value is written into every field
SetValueEveryField(form, field, value) == [f \in DOMAIN form |-> value]

\* currentForm.setValue(field, value)
SetValue(form, field, value) == [form EXCEPT ![field] = value]

\* recognition.onresult: currentForm.setValue("englishGrammarConcept",
\* transcript, { shouldValidate: true })
RecognitionResult ==
    /\ recognitionState \in {"running", "stopping"}
    /\ recognitionState' = "ending"
    /\ toast' = Null
    /\ \E transcript \in Transcripts :
          /\ IF selectedTeacher = "Ahmed"
             THEN /\ ahmedForm' = SetValue(ahmedForm, "englishGrammarConcept", transcript)
                  /\ UNCHANGED saraForm
             ELSE /\ saraForm' = SetValue(saraForm, "englishGrammarConcept", transcript)
                  /\ UNCHANGED ahmedForm
          /\ errors' = (errors \ {"englishGrammarConcept"}) \cup
                       AhmedErrors([englishGrammarConcept |-> transcript])
    /\ UNCHANGED << selectedTeacher, callState, explanation, isMuted,
                    isListening, listeningLanguage, speechRecognitionSupported, speechRecognitionRef,
                    conversationHistory, isSubmitting, pendingCalls,
                    synthAvailable, playback, voices, chosenVoice, synthSpeaking, voicesLoaded,
                    onvoiceschanged, staleEnds, utteranceErrorPending,
                    recognitionLanguage >>

\* recognition.onerror
RecognitionError ==
    /\ recognitionState \in {"starting", "running", "stopping"}
    /\ \E kind \in RecognitionErrors :
          /\ recognitionState' = "ending"
          /\ toast' = "voice-input-error"
          /\ isListening' = FALSE
          /\ listeningLanguage' = Null
    /\ TextToSpeechEffect(selectedTeacher, callState, explanation, isMuted,
                          FALSE, FALSE, FALSE)
    /\ UNCHANGED << selectedTeacher, callState, explanation, isMuted,
                    speechRecognitionSupported, speechRecognitionRef, conversationHistory, ahmedForm,
                    saraForm, errors, isSubmitting, pendingCalls,
                    synthAvailable, voices, voicesLoaded, staleEnds, recognitionLanguage >>

\* recognition.onend of the current recognition object
RecognitionEnd ==
    /\ recognitionState \in {"stopping", "ending"}
    /\ recognitionState' = "idle"
    /\ recognitionLanguage' = Null
    /\ toast' = Null
    /\ isListening' = FALSE
    /\ listeningLanguage' = Null
    /\ TextToSpeechEffect(selectedTeacher, callState, explanation, isMuted,
                          FALSE, FALSE, FALSE)
    /\ UNCHANGED << selectedTeacher, callState, explanation, isMuted,
                    speechRecognitionSupported, speechRecognitionRef, conversationHistory, ahmedForm,
                    saraForm, errors, isSubmitting, pendingCalls,
                    synthAvailable, voices, voicesLoaded, staleEnds >>

\* recognition.onend of an object a persona switch aborted and replaced: its
\* handlers still set the component's state
StaleRecognitionEnd ==
    /\ staleEnds > 0
    /\ staleEnds' = staleEnds - 1
    /\ toast' = Null
    /\ isListening' = FALSE
    /\ listeningLanguage' = Null
    /\ TextToSpeechEffect(selectedTeacher, callState, explanation, isMuted,
                          FALSE, FALSE, FALSE)
    /\ UNCHANGED << selectedTeacher, callState, explanation, isMuted,
                    speechRecognitionSupported, speechRecognitionRef, conversationHistory, ahmedForm,
                    saraForm, errors, isSubmitting, pendingCalls,
                    synthAvailable, voices, voicesLoaded, recognitionState,
                    recognitionLanguage >>

(***************************************************************************)
(* Speech playback: events of the synthesis engine                         *)
(***************************************************************************)
\* the voiceschanged event: the voice list is loaded, and a loadVoices
\* handler left in synth.onvoiceschanged speaks its utterance
VoicesChanged ==
    /\ synthAvailable
    /\ voicesLoaded' = TRUE
    /\ voices' = HostVoices
    /\ synthSpeaking' = (synthSpeaking \/ onvoiceschanged)
    /\ playback' = IF onvoiceschanged /\ explanation # Null
                   THEN Played(playback)
                   ELSE playback
       \* loadVoices of the render that installed the handler
    /\ chosenVoice' = IF onvoiceschanged
                      THEN ChooseVoice(selectedTeacher, HostVoices)
                      ELSE chosenVoice
    /\ toast' = Null
    /\ UNCHANGED << utteranceErrorPending, selectedTeacher, callState, explanation, isMuted,
                    isListening, listeningLanguage, speechRecognitionSupported, speechRecognitionRef,
                    conversationHistory, ahmedForm, saraForm, errors,
                    isSubmitting, pendingCalls, synthAvailable,
                    onvoiceschanged, recognitionState, staleEnds, recognitionLanguage >>

\* the utterance was spoken to its end (utterance.onend does nothing)
UtteranceEnd ==
    /\ synthSpeaking
    /\ synthSpeaking' = FALSE
    /\ toast' = Null
    /\ UNCHANGED << utteranceErrorPending, selectedTeacher, callState, explanation, isMuted,
                    isListening, listeningLanguage, speechRecognitionSupported, speechRecognitionRef,
                    conversationHistory, ahmedForm, saraForm, errors,
                    isSubmitting, pendingCalls, synthAvailable, playback, voices, chosenVoice, voicesLoaded,
                    onvoiceschanged, recognitionState, staleEnds, recognitionLanguage >>

\* the error kinds synth.cancel() gives a cancelled utterance
CancellationErrors == {"interrupted", "canceled"}

\* the error kinds utterance.onerror may receive: those, and failures of the
\* engine while it speaks
SynthesisErrors == CancellationErrors \cup {"synthesis-failed", "audio-busy"}

\* faulty variant of UtteranceOnError: every error is only logged
UtteranceOnErrorSilent(error) == Null

\* faulty variant of UtteranceOnError: only 'canceled' is swallowed
UtteranceOnErrorToastsInterrupted(error) ==
    IF error = "canceled" THEN Null ELSE "speech-error"

\* utterance.onerror: the notification it raises, if any
UtteranceOnError(error) ==
    IF error = "interrupted" \/ error = "canceled" THEN Null ELSE "speech-error"

\* the error event of an utterance: of a cancelled one, or of the speaking one
\* when the engine fails
UtteranceError(error) ==
    /\ IF error \in CancellationErrors
       THEN /\ utteranceErrorPending
            /\ utteranceErrorPending' = FALSE
            /\ UNCHANGED synthSpeaking
       ELSE /\ synthSpeaking
            /\ synthSpeaking' = FALSE
            /\ UNCHANGED utteranceErrorPending
    /\ toast' = UtteranceOnError(error)
    /\ UNCHANGED << selectedTeacher, callState, explanation, isMuted,
                    isListening, listeningLanguage, speechRecognitionSupported, speechRecognitionRef,
                    conversationHistory, ahmedForm, saraForm, errors,
                    isSubmitting, pendingCalls, synthAvailable, playback, voices, chosenVoice, voicesLoaded,
                    onvoiceschanged, recognitionState, staleEnds, recognitionLanguage >>

(***************************************************************************)
(* Specifications                                                          *)
(***************************************************************************)
\* on the host with speech the user waits for the answer to a question (or
\* abandons it by a persona switch and then waits for its late response)
\* before asking again; SpecCore explores overlapping calls
SpeechEnv == Env(MaxFollowUps, 1, {"e1"})

Next ==
    \/ SubmitAhmed(SpeechEnv)
    \/ SubmitSara(SpeechEnv)
    \/ VoiceCallResolves(SpeechEnv)
    \/ VoiceCallRejects
    \/ \E t \in Teacher : SelectTeacher(t)
    \/ endCall
    \/ toggleMute
    \/ \E language \in SpeechLanguage : toggleListening(language)
    \/ RecognitionStart
    \/ RecognitionResult
    \/ RecognitionError
    \/ RecognitionEnd
    \/ StaleRecognitionEnd
    \/ VoicesChanged
    \/ UtteranceEnd
    \/ \E error \in SynthesisErrors : UtteranceError(error)

Spec == Init /\ [][Next]_vars

\* the session on a host without speech capabilities
CoreEnv == Env(MaxFollowUpsCore, MaxInFlightCore, Explanations)

NextCore ==
    \/ SubmitAhmed(CoreEnv)
    \/ SubmitSara(CoreEnv)
    \/ VoiceCallResolves(CoreEnv)
    \/ VoiceCallRejects
    \/ \E t \in Teacher : SelectTeacher(t)
    \/ endCall
    \/ toggleMute

SpecCore == InitNoSpeech /\ [][NextCore]_vars

\* the same host with a gateway that answers: while a call is awaiting its
\* response, a response (a result or an exception) eventually arrives
LiveEnv == Env(MaxFollowUpsCore, MaxInFlightCore, {"e1"})

NextLive ==
    \/ SubmitAhmed(LiveEnv)
    \/ SubmitSara(LiveEnv)
    \/ VoiceCallResolves(LiveEnv)
    \/ VoiceCallRejects
    \/ \E t \in Teacher : SelectTeacher(t)
    \/ endCall
    \/ toggleMute

SpecLive ==
    /\ InitNoSpeech
    /\ [][NextLive]_vars
    /\ WF_vars(VoiceCallResolves(LiveEnv) \/ VoiceCallRejects)

\* the same host, with a user who waits for each answer before asking again
\* and keeps asking follow-up questions after the history is full
PatientEnv == Env(MAX_HISTORY_PAIRS + 1, 1, Explanations)

NextLong ==
    \/ SubmitAhmed(PatientEnv)
    \/ SubmitSara(PatientEnv)
    \/ VoiceCallResolves(PatientEnv)
    \/ VoiceCallRejects
    \/ \E t \in Teacher : SelectTeacher(t)
    \/ endCall
    \/ toggleMute

SpecLong == InitNoSpeech /\ [][NextLong]_vars

\* the session on a host that speaks and cannot listen
NextNoRecognition ==
    \/ RecognitionSetup
    \/ SubmitAhmed(SpeechEnv)
    \/ SubmitSara(SpeechEnv)
    \/ VoiceCallResolves(SpeechEnv)
    \/ VoiceCallRejects
    \/ \E t \in Teacher : SelectTeacher(t)
    \/ endCall
    \/ toggleMute
    \/ \E language \in SpeechLanguage : toggleListening(language)
    \/ VoicesChanged
    \/ UtteranceEnd
    \/ \E error \in SynthesisErrors : UtteranceError(error)

SpecNoRecognition == InitNoRecognition /\ [][NextNoRecognition]_vars

\* A host whose voice list is one of VoiceLists: the user asks one question
\* of either persona, switches persona and ends calls.
VoicesEnv == Env(1, 1, {"e1"})

NextVoices ==
    \/ SubmitAhmed(VoicesEnv)
    \/ SubmitSara(VoicesEnv)
    \/ VoiceCallResolves(VoicesEnv)
    \/ \E t \in Teacher : SelectTeacher(t)
    \/ endCall
    \/ UtteranceEnd

SpecVoices == InitVoices /\ [][NextVoices]_vars

TypeOK ==
    /\ selectedTeacher \in Teacher
    /\ callState \in CallState
    /\ explanation \in Explanations \cup {Null}
    /\ isMuted \in BOOLEAN
    /\ isListening \in BOOLEAN
    /\ listeningLanguage \in SpeechLanguage \cup {Null}
    /\ Len(pendingCalls) <= MaxInFlightCore
    /\ staleEnds \in 0..MaxStale
    /\ utteranceErrorPending \in BOOLEAN
    /\ recognitionLanguage \in SpeechLanguage \cup {Null}
    /\ speechRecognitionRef \in BOOLEAN
    /\ toast \in ToastTitles \cup {Null}
    /\ voices \in VoiceLists \cup {<< >>}
    /\ voicesLoaded = (Len(voices) > 0)
    /\ chosenVoice \in VoiceUniverse \cup {NoVoice}
    /\ playback \in {"none", "once", "again"}


(***************************************************************************)
(* Properties                                                              *)
(***************************************************************************)
HistoryPair(c, t, e) == << ConversationEntry("User", c), ConversationEntry(t, e) >>

\* C1: callState enters active or error only from calling: no step takes
\* callState from idle (or from active / error) directly to active or error.
C1_EntersOnlyFromCalling ==
    [][(callState' # callState /\ callState' \in {"active", "error"})
          => callState = "calling"]_vars

\* C2: at most one gateway call awaits its response in every reachable state.
C2_AtMostOneInFlight == Len(pendingCalls) <= 1

\* C3: the history always has an even number of entries and at most 20; a
\* successful turn appends one User/persona pair, and when that makes 22
\* entries exactly the two oldest are dropped, the others keeping their
\* order; every other step leaves the history as it is or clears it.
C3_HistoryStep ==
    IF \E i \in 1..Len(pendingCalls), e \in Explanations : ResolveCall(i, e)
    THEN \E c \in Concepts \cup Transcripts, t \in Teacher, e \in Explanations :
            LET grown == conversationHistory \o HistoryPair(c, t, e)
            IN  conversationHistory' =
                   IF Len(grown) <= 20 THEN grown ELSE Tail(Tail(grown))
    ELSE conversationHistory' \in {conversationHistory, << >>}

C3_HistoryEvenBoundedTrimmed ==
    /\ [](Len(conversationHistory) % 2 = 0 /\ Len(conversationHistory) <= 20)
    /\ [][C3_HistoryStep]_vars

\* a turn was submitted on a full history: its success makes the history
\* exceed 20 entries
C3_Witness ==
    /\ Len(conversationHistory) = 20
    /\ \E i \in 1..Len(pendingCalls) :
          pendingCalls[i].input.conversationHistory = conversationHistory

\* C4: a recognition session that has started and not ended and a speaking
\* utterance never exist in the same state.
C4_CaptureAndPlaybackExclusive ==
    ~(synthSpeaking /\ recognitionState \in {"running", "stopping"})

\* C5: every persona switch and every end of session leaves callState idle,
\* explanation null and the history empty in the state right after it.
C5_ResetYieldsIdle ==
    [][(endCall \/ \E t \in Teacher : SelectTeacher(t))
          => (callState' = "idle" /\ explanation' = Null
              /\ conversationHistory' = << >>)]_vars

\* a persona switch made while a turn was calling
C5_Witness ==
    /\ selectedTeacher = "Sara"
    /\ callState = "idle"
    /\ conversationHistory = << >>
    /\ pendingCalls # << >>

\* C6: when the gateway call of a turn fails, callState becomes error and the
\* history is the one the turn was submitted with.
C6_FailureKeepsSubmittedHistory ==
    [][\A i \in 1..Len(pendingCalls) :
          RejectCall(i)
             => (callState' = "error"
                 /\ conversationHistory' = pendingCalls[i].input.conversationHistory)]_vars

\* C7: no gateway call is ever in flight for a concept shorter than 3
\* characters or (Sara) a proficiency shorter than 2, and a submission of
\* such data leaves callState, explanation, the history and the calls in
\* flight unchanged.
C7_InFlightValid ==
    \A i \in 1..Len(pendingCalls) :
       /\ Len(pendingCalls[i].input.englishGrammarConcept) >= 3
       /\ pendingCalls[i].teacher = "Sara"
             => Len(pendingCalls[i].input.userLanguageProficiency) >= 2

C7_InvalidSubmission ==
    \/ /\ SubmitAhmed(SpeechEnv)
       /\ Len(ahmedForm'.englishGrammarConcept) < 3
    \/ /\ SubmitSara(SpeechEnv)
       /\ \/ Len(saraForm'.englishGrammarConcept) < 3
          \/ Len(saraForm'.userLanguageProficiency) < 2

C7_InvalidRejectedLocally ==
    /\ []C7_InFlightValid
    /\ [][C7_InvalidSubmission
            => UNCHANGED << callState, explanation, conversationHistory,
                            pendingCalls >>]_vars

\* Sara's form was submitted with a one-character proficiency during a session
C7_Witness ==
    /\ selectedTeacher = "Sara"
    /\ callState = "active"
    /\ saraForm.userLanguageProficiency = "a"
    /\ "userLanguageProficiency" \in errors
    /\ pendingCalls = << >>

\* C8: when the call of a turn (concept C, persona P) succeeds with E, the
\* history becomes its previous content followed by {User, C}, {P, E},
\* trimmed to the last 20, explanation becomes E and callState active; and
\* if the previous history was empty the gateway had been called with [] and
\* the history is exactly the new pair.
C8_SuccessRecordsTurn ==
    [][\A i \in 1..Len(pendingCalls), e \in Explanations :
          ResolveCall(i, e)
             => LET call == pendingCalls[i]
                    pair == HistoryPair(call.input.englishGrammarConcept,
                                        call.teacher, e)
                    grown == conversationHistory \o pair
                IN  /\ conversationHistory' =
                          IF Len(grown) <= 20 THEN grown
                          ELSE SubSeq(grown, Len(grown) - 19, Len(grown))
                    /\ explanation' = e
                    /\ callState' = "active"
                    /\ conversationHistory = << >>
                          => /\ call.input.conversationHistory = << >>
                             /\ conversationHistory' = pair]_vars

\* C9: in callState active the page offers the submission of a new input for
\* the selected persona.
C9_FollowUpOfferedWhenActive == callState = "active" => SubmitOffered

\* C10 as stated: ending the session is offered in callState active and in
\* callState error.
C10_EndOfferedInActiveAndError ==
    callState \in {"active", "error"} => EndCallOffered

\* C10 amended: ending the session is offered in callState active, is only
\* taken there and moves callState to idle; in callState error it is not
\* offered, resubmitting is offered as soon as no capture is listening and no
\* submission of the selected form is running, and only a persona switch
\* takes callState from error to idle.
C10_EndOnlyFromActive ==
    /\ [](callState = "active" => EndCallOffered)
    /\ [](callState = "error"
            => /\ ~EndCallOffered
               /\ (~isListening /\ ~isSubmitting[selectedTeacher]) => SubmitOffered)
    /\ [][endCall => (callState = "active" /\ callState' = "idle")]_vars
    /\ [][(callState = "error" /\ callState' = "idle")
            => selectedTeacher' # selectedTeacher]_vars

\* a gateway failure after which the submit button is enabled again
C10_Witness ==
    /\ callState = "error"
    /\ pendingCalls = << >>
    /\ SubmitOffered
    /\ ~EndCallOffered

\* C11: when mute is toggled on while an utterance is speaking, the utterance
\* is cancelled in that same step and the step raises no notification; the
\* 'interrupted' or 'canceled' error event the cancelled utterance then fires
\* raises no notification either.
C11_MuteCancelsSilently ==
    /\ [][(toggleMute /\ ~isMuted /\ synthSpeaking)
            => (~synthSpeaking' /\ utteranceErrorPending' /\ toast' = Null)]_vars
    /\ [][(\E error \in CancellationErrors : UtteranceError(error))
            => toast' = Null]_vars

\* muted during playback: the cancelled utterance still owes its error event
C11_Witness ==
    /\ isMuted
    /\ callState = "active"
    /\ explanation # Null
    /\ ~synthSpeaking
    /\ utteranceErrorPending

\* C12: when mute is toggled off in callState active with an explanation
\* present, no utterance starts speaking in that step (the last explanation
\* is not played again).
C12_UnmuteDoesNotReplay ==
    [][(toggleMute /\ isMuted /\ callState = "active" /\ explanation # Null
          /\ ~synthSpeaking)
          => ~synthSpeaking']_vars

\* C13: in every reachable state callState idle implies an empty history;
\* idle is entered only by a persona switch or by ending the session, and a
\* step that puts entries into the history never leaves callState idle.
C13_IdleHasEmptyHistory ==
    /\ [](callState = "idle" => conversationHistory = << >>)
    /\ [][(callState # "idle" /\ callState' = "idle")
            => (endCall \/ \E t \in Teacher : SelectTeacher(t))]_vars
    /\ [][(conversationHistory' # conversationHistory
               /\ conversationHistory' # << >>)
            => callState' # "idle"]_vars

\* idle again on Ahmed's page after a switch to Sara and back, while the
\* response to a question asked before is still awaited
C13_Witness ==
    /\ selectedTeacher = "Ahmed"
    /\ callState = "idle"
    /\ conversationHistory = << >>
    /\ \E i \in 1..Len(pendingCalls) : pendingCalls[i].abandoned

\* C14: right after a valid submission, a persona switch or the end of the
\* session no utterance is speaking and the recognition object holds no
\* session that was requested or has started and has not been aborted.
C14_ValidSubmission ==
    /\ SubmitAhmed(SpeechEnv) \/ SubmitSara(SpeechEnv)
    /\ Len(pendingCalls') = Len(pendingCalls) + 1

C14_EventsStopSpeech ==
    [][(C14_ValidSubmission \/ endCall \/ \E t \in Teacher : SelectTeacher(t))
          => /\ ~synthSpeaking'
             /\ recognitionState' \notin {"starting", "running", "stopping"}]_vars

\* C15: the response (success or failure) to a call made before a persona
\* switch or an end of session leaves callState, explanation and the history
\* as they were just before it arrived.
C15_LateResponseChangesNothing ==
    [][\A i \in 1..Len(pendingCalls) :
          (/\ pendingCalls[i].abandoned
           /\ RejectCall(i) \/ \E e \in Explanations : ResolveCall(i, e))
             => UNCHANGED << callState, explanation, conversationHistory >>]_vars

\* C16: every entry of the history has speaker User or the selected persona,
\* and every call in flight was given a history its persona's input schema
\* accepts.
C16_HistorySpeakersMatchPersona ==
    /\ \A i \in 1..Len(conversationHistory) :
          conversationHistory[i].speaker \in {"User", selectedTeacher}
    /\ \A i \in 1..Len(pendingCalls) :
          InputSchemaAccepts(pendingCalls[i].teacher, pendingCalls[i].input)

\* C17: explanation is non-null only in callState active.
C17_ExplanationOnlyWhenActive == explanation # Null => callState = "active"

\* C18: no utterance is speaking while isMuted is true or while callState is
\* not active, whichever path called synth.speak (the effect itself or the
\* loadVoices handler left for the voiceschanged event).
C18_NoPlaybackMutedOrInactive ==
    synthSpeaking => (~isMuted /\ callState = "active")

\* C19: with a gateway that answers, callState calling always leads to
\* callState active, error or idle; and callState is calling only while a
\* gateway call is awaiting its response.
C19_CallingEnds ==
    /\ (callState = "calling") ~> (callState \in {"active", "error", "idle"})
    /\ [](callState = "calling" => pendingCalls # << >>)

\* calling with two calls awaiting their responses, one of them abandoned
C19_Witness ==
    /\ callState = "calling"
    /\ Len(pendingCalls) = 2
    /\ pendingCalls[1].abandoned
    /\ ~pendingCalls[2].abandoned

\* C20: the events of a capture (start, result, error of any kind, end, also
\* the end of an aborted former recognition object) leave callState,
\* explanation, the history and the gateway calls in flight unchanged; a result
\* writes the transcript into the concept field of the selected persona's form
\* and into no other field of either form; an error or an end leaves
\* isListening false and listeningLanguage null.
C20_CaptureEvent ==
    \/ RecognitionStart
    \/ RecognitionResult
    \/ RecognitionError
    \/ RecognitionEnd
    \/ StaleRecognitionEnd

C20_ResultWritesConcept ==
    \E transcript \in Transcripts :
       IF selectedTeacher = "Ahmed"
       THEN /\ ahmedForm' = [englishGrammarConcept |-> transcript]
            /\ saraForm' = saraForm
       ELSE /\ saraForm' = [englishGrammarConcept |-> transcript,
                            userLanguageProficiency |-> saraForm.userLanguageProficiency]
            /\ ahmedForm' = ahmedForm

C20_CaptureLeavesTurnState ==
    /\ [][C20_CaptureEvent
            => UNCHANGED << callState, explanation, conversationHistory,
                            pendingCalls, selectedTeacher >>]_vars
    /\ [][RecognitionResult => C20_ResultWritesConcept]_vars
    /\ [][(RecognitionError \/ RecognitionEnd \/ StaleRecognitionEnd)
            => (~isListening' /\ listeningLanguage' = Null)]_vars

\* a transcript was delivered into Sara's form during a session, next to the
\* proficiency the user had typed
C20_Witness ==
    /\ selectedTeacher = "Sara"
    /\ callState = "active"
    /\ recognitionState = "ending"
    /\ isListening
    /\ saraForm.englishGrammarConcept = "ab"
    /\ saraForm.userLanguageProficiency = "ab"
    /\ pendingCalls = << >>

\* C21: toggleListening calls start() on the recognition object only when no
\* capture requested before is still pending, running or ending, and a
\* toggleListening made while a capture is running stops it.
C21_StartOnlyWhenNoneRequested ==
    [][(\E language \in SpeechLanguage : toggleListening(language))
          => /\ ~isListening => recognitionState = "idle"
             /\ recognitionState = "running" => recognitionState' = "stopping"]_vars

\* C22: whenever isListening is true, listeningLanguage is en-US or ar-SA and
\* is the language the session of the recognition object was started with;
\* and the end event of a recognition object aborted by a persona switch
\* leaves isListening and listeningLanguage of the newer session unchanged.
C22_ListeningMatchesSession ==
    /\ [](isListening => /\ listeningLanguage \in SpeechLanguage
                         /\ listeningLanguage = recognitionLanguage)
    /\ [][(StaleRecognitionEnd /\ recognitionState \in {"starting", "running"})
            => UNCHANGED << isListening, listeningLanguage >>]_vars

\* C23: the gateway is called exactly once by every submission of valid data
\* and by no other step: the calls in flight grow only by a valid submission,
\* by one call carrying the submitted data, and a gateway failure only
\* removes the failed call.
C23_ValidSubmission ==
    \/ SubmitAhmed(CoreEnv) /\ AhmedErrors(ahmedForm') = {}
    \/ SubmitSara(CoreEnv) /\ SaraErrors(saraForm') = {}

C23_NoAutomaticRetry ==
    /\ [][C23_ValidSubmission
            => /\ Len(pendingCalls') = Len(pendingCalls) + 1
               /\ SubSeq(pendingCalls', 1, Len(pendingCalls)) = pendingCalls
               /\ LET call == pendingCalls'[Len(pendingCalls')]
                  IN  /\ call.teacher = selectedTeacher
                      /\ call.input.englishGrammarConcept =
                            (IF selectedTeacher = "Ahmed" THEN ahmedForm'
                             ELSE saraForm').englishGrammarConcept]_vars
    /\ [][(\A i \in 1..Len(pendingCalls') :
               \E j \in 1..Len(pendingCalls) :
                  pendingCalls'[i].input = pendingCalls[j].input)
            \/ C23_ValidSubmission]_vars
    /\ [][VoiceCallRejects
            => Len(pendingCalls') = Len(pendingCalls) - 1]_vars

\* a follow-up question to Sara failed: no call is in flight afterwards
C23_Witness ==
    /\ selectedTeacher = "Sara"
    /\ callState = "error"
    /\ toast = "connection-error"
    /\ conversationHistory # << >>
    /\ pendingCalls = << >>

\* C24: on a host without a SpeechRecognition API the setup effect marks
\* speech recognition unsupported, and it stays so; every toggleListening is
\* rejected with the "unsupported" notification and starts no capture; no
\* capture is ever requested and isListening is false in every state.
C24_UnsupportedNeverListens ==
    /\ [](~isListening /\ listeningLanguage = Null /\ recognitionState = "idle")
    /\ [][(\E language \in SpeechLanguage : toggleListening(language))
            => /\ toast' = "feature-unsupported"
               /\ UNCHANGED << isListening, listeningLanguage,
                               recognitionState >>]_vars
    /\ [][RecognitionSetup => ~speechRecognitionSupported']_vars
    /\ [][~speechRecognitionSupported => ~speechRecognitionSupported']_vars

\* a capture button was clicked before the setup effect had hidden it: the
\* request was rejected
C24_Witness ==
    /\ ~speechRecognitionRef
    /\ toast = "feature-unsupported"
    /\ ~isListening
    /\ recognitionState = "idle"

\* C25: the error event of an utterance raises no notification when its kind
\* is 'interrupted' or 'canceled' and exactly the "speech error" notification
\* for every other kind; in both cases callState, explanation and the history
\* are unchanged.
C25_SynthesisErrorsSurfaced ==
    [][\A error \in SynthesisErrors :
          UtteranceError(error)
             => /\ toast' = (IF error \in {"interrupted", "canceled"}
                             THEN Null ELSE "speech-error")
                /\ UNCHANGED << callState, explanation, conversationHistory >>]_vars

\* the engine failed while it was speaking the explanation of a session
C25_Witness ==
    /\ toast = "speech-error"
    /\ callState = "active"
    /\ explanation # Null
    /\ conversationHistory # << >>
    /\ ~synthSpeaking

\* C26: an utterance that starts playing got its voice thus: among the
\* voices whose language starts with "ar-" the first one whose name satisfies
\* the selected persona's pattern; if none does, the first "ar-" voice; if
\* there is no "ar-" voice, no explicit voice.
C26_Expected ==
    LET arabic == {i \in 1..Len(voices) :
                      /\ Len(voices[i].lang) >= 3
                      /\ voices[i].lang[1] = "a"
                      /\ voices[i].lang[2] = "r"
                      /\ voices[i].lang[3] = "-"}
        match == {i \in arabic : PersonaPattern(selectedTeacher, voices[i].name)}
        First(set) == CHOOSE i \in set : \A j \in set : i <= j
    IN  IF match # {} THEN chosenVoice' = voices[First(match)]
        ELSE IF arabic # {} THEN chosenVoice' = voices[First(arabic)]
        ELSE chosenVoice' = NoVoice

C26_VoiceByPersonaThenLanguage ==
    [][(VoiceCallResolves(VoicesEnv) /\ synthSpeaking') => C26_Expected]_vars

\* Sara's explanation plays with the female voice, which is neither the first
\* voice nor the first Arabic voice of the list
C26_Witness ==
    /\ synthSpeaking
    /\ selectedTeacher = "Sara"
    /\ voices = << EnglishVoice, MaleVoice, FemaleVoice >>
    /\ chosenVoice = FemaleVoice

DesignatesFemale(name) ==
    Contains(LowerCase(name), << "f", "e", "m", "a", "l", "e" >>) \/ Contains(LowerCase(name), Imraa)

DesignatesMale(name) ==
    /\ ~DesignatesFemale(name)
    /\ Contains(LowerCase(name), << "m", "a", "l", "e" >>) \/ Contains(LowerCase(name), Rajul)

\* C27: while Ahmed's explanation plays on a host that has an "ar-" voice
\* whose name designates a male voice, the utterance's voice is never one
\* whose name designates a female voice.
C27_AhmedNeverFemaleVoice ==
    (/\ selectedTeacher = "Ahmed"
     /\ synthSpeaking
     /\ \E i \in 1..Len(voices) :
           IsArabicVoice(voices[i]) /\ DesignatesMale(voices[i].name))
    => ~DesignatesFemale(chosenVoice.name)

\* C28: only toggleMute changes isMuted (a submission, a gateway response, a
\* persona switch, an end of session and the capture events leave it as it
\* is), and toggleMute leaves callState, the explanation, the history,
\* isListening and the selected persona as they are.
C28_MuteFrame ==
    [][/\ isMuted' # isMuted => toggleMute
       /\ toggleMute => UNCHANGED << callState, explanation, conversationHistory,
                                     isListening, selectedTeacher >>]_vars

\* muted in the middle of an active session that holds an explanation
C28_Witness ==
    /\ isMuted
    /\ callState = "active"
    /\ explanation # Null
    /\ Len(conversationHistory) = 2

\* C29: playback of the explanation of a turn is started at most once: once
\* it has begun playing, no event other than a new successful turn (not the
\* end of a capture session in callState active either) starts it again.
C29_PlaybackOncePerTurn == playback # "again"

====
